---------------------------- MODULE Spec2Model ----------------------------
(***************************************************************************)
(* Model of the jira-processor scripts: the ticket classifier and the      *)
(* Ralph eligibility scorer (utils/jira_patterns.py), the analyze_ticket   *)
(* entry point (analyze_ticket.py), the comment follow-up detector         *)
(* (utils/comment_detector.py) and the repository configuration loader     *)
(* with the code mapper's rule selection (utils/config_loader.py,          *)
(* utils/code_mapper.py).                                                   *)
(*                                                                         *)
(* Python strings are modelled as sequences of one-character strings, so   *)
(* that substring containment, lower-casing, the regular expressions and   *)
(* string comparison are computed character by character as the code       *)
(* computes them.                                                           *)
(***************************************************************************)
EXTENDS Integers, Sequences, FiniteSets, TLC

(***************************************************************************)
(* Characters and strings                                                   *)
(***************************************************************************)

VARIABLES
  pc,                \* where the current invocation stands
  summary,           \* the ticket's summary
  description,       \* the ticket's description
  ticket_comments,   \* the formatted comments string given to analyze_ticket
  classification,    \* what classify_ticket_type returned
  passed,            \* the classification handed to assess_ralph_eligibility
  ralph_assessment,  \* what assess_ralph_eligibility returned
  analysis,          \* what analyze_ticket returned, or the error it raised
  comments,          \* the raw comment list
  user_account_id,   \* the account the follow-up question is about
  latest,            \* what get_latest_user_comment returned
  followup,          \* what has_followup_from_others returned
  fs,                \* what the configuration loader finds on disk
  config,            \* what load_repo_config returned
  rules,             \* what get_code_mapping_rules returned
  index_map,         \* what get_index_url_map returned
  input_text,              \* the input_text given to the code mapper and the index resolver
  input_urls,              \* the URL list given to extract_index_from_urls
  mapped,          \* what map_keywords_to_files returned
  primary_files,           \* what get_primary_files returned
  found_indices,           \* what extract_index_from_urls / extract_index_from_text returned
  runner,            \* how the test and build commands will end when run
  log,               \* the commands run so far, in order
  verification       \* what verify_all returned

vars == <<pc, summary, description, ticket_comments, classification, passed,
          ralph_assessment, analysis, comments, user_account_id, latest, followup,
          fs, config, rules, index_map, input_text, input_urls, mapped, primary_files,
          found_indices,
          runner, log, verification>>

ticket_vars == <<summary, description, ticket_comments, classification, passed,
                 ralph_assessment, analysis>>

comment_vars == <<comments, user_account_id, latest, followup>>

config_vars == <<fs, config, rules, index_map>>


mapper_vars == <<input_text, input_urls, mapped, primary_files, found_indices>>

verify_vars == <<runner, log, verification>>
UpperLetters == {"A", "B", "C", "D", "E", "F", "G", "H", "I", "J", "K", "L", "M", "N", "O", "P", "Q", "R", "S", "T", "U", "V", "W", "X", "Y", "Z"}
LowerLetters == {"a", "b", "c", "d", "e", "f", "g", "h", "i", "j", "k", "l", "m", "n", "o", "p", "q", "r", "s", "t", "u", "v", "w", "x", "y", "z"}
Digits == {"0", "1", "2", "3", "4", "5", "6", "7", "8", "9"}

\* the pairs <<upper-case letter, its lower-case letter>>
UpperToLower ==
  { <<"A", "a">>, <<"B", "b">>, <<"C", "c">>, <<"D", "d">>, <<"E", "e">>, <<"F", "f">>, <<"G", "g">>,
    <<"H", "h">>, <<"I", "i">>, <<"J", "j">>, <<"K", "k">>, <<"L", "l">>, <<"M", "m">>, <<"N", "n">>,
    <<"O", "o">>, <<"P", "p">>, <<"Q", "q">>, <<"R", "r">>, <<"S", "s">>, <<"T", "t">>, <<"U", "u">>,
    <<"V", "v">>, <<"W", "w">>, <<"X", "x">>, <<"Y", "y">>, <<"Z", "z">> }

\* \w of Python's re, restricted to the ASCII characters the model uses
WordChars == LowerLetters \cup UpperLetters \cup Digits \cup {"_"}

\* \s of Python's re, restricted to the ASCII characters the model uses
Whitespace == {" ", "\t", "\n", "\r", "\f"}

\* str.lower()
lower(text) ==
  [i \in 1..Len(text) |->
     IF text[i] \in UpperLetters
     THEN (CHOOSE pair \in UpperToLower : pair[1] = text[i])[2]
     ELSE text[i]]

\* text[pos:].startswith(s), pos counted from 1
HasAt(text, pos, s) ==
  /\ pos + Len(s) - 1 <= Len(text)
  /\ \A k \in 1..Len(s) : text[pos + k - 1] = s[k]

\* Python's `needle in hay` on strings
Contains(hay, needle) ==
  \E i \in 1..(Len(hay) - Len(needle) + 1) : HasAt(hay, i, needle)

\* str.endswith
EndsWith(text, s) ==
  Len(s) <= Len(text) /\ HasAt(text, Len(text) - Len(s) + 1, s)

RECURSIVE ReplaceFrom(_, _, _, _)
ReplaceFrom(text, pos, old, new) ==
  IF pos > Len(text) THEN <<>>
  ELSE IF HasAt(text, pos, old)
       THEN new \o ReplaceFrom(text, pos + Len(old), old, new)
       ELSE <<text[pos]>> \o ReplaceFrom(text, pos + 1, old, new)

\* str.replace(old, new) for a non-empty old
Replace(text, old, new) == ReplaceFrom(text, 1, old, new)

RECURSIVE JoinWith(_, _)
\* sep.join(parts)
JoinWith(sep, parts) ==
  IF Len(parts) = 0 THEN <<>>
  ELSE IF Len(parts) = 1 THEN parts[1]
  ELSE parts[1] \o sep \o JoinWith(sep, Tail(parts))

(***************************************************************************)
(* Regular expressions of jira_patterns.py, as Python's re evaluates them  *)
(***************************************************************************)

\* \b at the gap before text[pos] (pos in 1..Len(text)+1)
WordBoundary(text, pos) ==
  LET before == pos > 1 /\ text[pos - 1] \in WordChars
      after  == pos <= Len(text) /\ text[pos] \in WordChars
  IN  before # after

RECURSIVE RunEnd(_, _, _)
\* the position after the longest run of characters of class cls starting at pos
RunEnd(text, pos, cls) ==
  IF pos <= Len(text) /\ text[pos] \in cls THEN RunEnd(text, pos + 1, cls) ELSE pos

RECURSIVE RunEndNot(_, _, _)
\* the position after the longest run of characters outside cls starting at pos
RunEndNot(text, pos, cls) ==
  IF pos <= Len(text) /\ text[pos] \notin cls THEN RunEndNot(text, pos + 1, cls) ELSE pos

NoMatch == [end |-> 0, group |-> <<>>]

\* the thirteen digits from pos up to (not including) e, between two \b
IsbnMatch(text, pos, e) ==
  IF /\ WordBoundary(text, pos)
     /\ HasAt(text, pos, <<"9","7","8">>)
     /\ e - 1 <= Len(text)
     /\ \A k \in (pos + 3)..(e - 1) : text[k] \in Digits
     /\ WordBoundary(text, e)
  THEN [end |-> e, group |-> SubSeq(text, pos, e - 1)]
  ELSE NoMatch

\* ISBN_PATTERN = \b(978\d{10})\b
ISBN_PATTERN(text, pos) == IsbnMatch(text, pos, pos + 13)

FileExtensions == << <<"p","y">>, <<"y","a","m","l">>, <<"j","s","o","n">>, <<"x","m","l">> >>

\* (py|yaml|json|xml)\b after the dot at position dot: the alternatives that
\* match there, in the order the pattern tries them
ExtensionsAt(text, dot) ==
  SelectSeq(FileExtensions,
    LAMBDA x : HasAt(text, dot + 1, x) /\ WordBoundary(text, dot + 1 + Len(x)))

\* the rest of FILE_PATTERN once [\w/]+ has run from pos up to dot
FileMatch(text, pos, dot, exts) ==
  IF /\ WordBoundary(text, pos)
     /\ dot > pos
     /\ dot <= Len(text)
     /\ text[dot] = "."
     /\ Len(exts) > 0
  THEN [end |-> dot + 1 + Len(exts[1]), group |-> exts[1]]
  ELSE NoMatch

\* the greedy run [\w/]+ from pos, then the dot and the extension
FileRun(text, pos, dot) == FileMatch(text, pos, dot, ExtensionsAt(text, dot))

\* FILE_PATTERN = \b[\w/]+\.(py|yaml|json|xml)\b ; the only group is the extension
FILE_PATTERN(text, pos) == FileRun(text, pos, RunEnd(text, pos, WordChars \cup {"/"}))

\* \s+\w+ after a keyword that ended before sp, the name starting at nm:
\* the end of the match, 0 if none
NameAfter(text, sp, nm, e) == IF nm > sp /\ e > nm THEN e ELSE 0

SpaceThenName(text, sp, nm) == NameAfter(text, sp, nm, RunEnd(text, nm, WordChars))

\* def\s+\w+ and class\s+\w+ : the end of the match at pos, 0 if none
KeywordThenName(text, pos, kw) ==
  IF HasAt(text, pos, kw)
  THEN SpaceThenName(text, pos + Len(kw), RunEnd(text, pos + Len(kw), Whitespace))
  ELSE 0

ParensAt(text, pos, p) == IF p > pos /\ HasAt(text, p, <<"(", ")">>) THEN p + 2 ELSE 0

\* \w+\(\) : the end of the match at pos, 0 if none
NameThenParens(text, pos) == ParensAt(text, pos, RunEnd(text, pos, WordChars))

\* the first alternative whose end the closing \b accepts
FirstAccepted(text, pos, ok) ==
  IF WordBoundary(text, pos) /\ Len(ok) > 0
  THEN [end |-> ok[1], group |-> SubSeq(text, pos, ok[1] - 1)]
  ELSE NoMatch

\* FUNCTION_PATTERN = \b(def\s+\w+|class\s+\w+|\w+\(\))\b ; alternatives in order,
\* the next one tried when the closing \b rejects the previous one
FUNCTION_PATTERN(text, pos) ==
  FirstAccepted(text, pos,
    SelectSeq(<< KeywordThenName(text, pos, <<"d","e","f">>),
                 KeywordThenName(text, pos, <<"c","l","a","s","s">>),
                 NameThenParens(text, pos) >>,
              LAMBDA e : e > 0 /\ WordBoundary(text, e)))

\* the length of the scheme https:// or http:// at pos, 0 if neither is there
SchemeAt(text, pos) ==
  IF HasAt(text, pos, <<"h","t","t","p","s",":","/","/">>) THEN 8
  ELSE IF HasAt(text, pos, <<"h","t","t","p",":","/","/">>) THEN 7
  ELSE 0

UrlMatch(text, pos, scheme, e) ==
  IF scheme > 0 /\ e > pos + scheme
  THEN [end |-> e, group |-> SubSeq(text, pos, e - 1)]
  ELSE NoMatch

UrlRun(text, pos, scheme) ==
  UrlMatch(text, pos, scheme, RunEndNot(text, pos + scheme, Whitespace \cup {"<", ">", "\""}))

\* URL_PATTERN = https?://[^\s<>"]+ ; no group, the whole match is reported
URL_PATTERN(text, pos) == UrlRun(text, pos, SchemeAt(text, pos))

\* Pattern.match of the named compiled pattern at pos
MatchAt(pattern, text, pos) ==
  CASE pattern = "ISBN_PATTERN" -> ISBN_PATTERN(text, pos)
    [] pattern = "FILE_PATTERN" -> FILE_PATTERN(text, pos)
    [] pattern = "FUNCTION_PATTERN" -> FUNCTION_PATTERN(text, pos)
    [] pattern = "URL_PATTERN" -> URL_PATTERN(text, pos)

RECURSIVE FindAllFrom(_, _, _)
\* findall's step at pos, given the match m tried there
FindAllStep(pattern, text, pos, m) ==
  IF m.end = 0 THEN FindAllFrom(pattern, text, pos + 1)
  ELSE <<m.group>> \o FindAllFrom(pattern, text, m.end)

\* Pattern.findall: the leftmost non-overlapping matches from pos on, each
\* reported by its group (the whole match for a pattern with no group)
FindAllFrom(pattern, text, pos) ==
  IF pos > Len(text) THEN <<>>
  ELSE FindAllStep(pattern, text, pos, MatchAt(pattern, text, pos))

extract_isbns(text) == FindAllFrom("ISBN_PATTERN", text, 1)

extract_file_references(text) == FindAllFrom("FILE_PATTERN", text, 1)

extract_urls(text) == FindAllFrom("URL_PATTERN", text, 1)

extract_function_references(text) == FindAllFrom("FUNCTION_PATTERN", text, 1)

(***************************************************************************)
(* Keyword matching                                                         *)
(***************************************************************************)

\* the number of keywords (list positions) whose lower-cased form occurs in the text
count_keyword_matches(text, keywords) ==
  LET text_lower == lower(text)
  IN  Cardinality({i \in 1..Len(keywords) : Contains(text_lower, lower(keywords[i]))})

\* find_matching_keywords without the case folding
find_matching_keywords_case_sensitive(text, keywords) ==
  SelectSeq(keywords, LAMBDA kw : Contains(text, kw))

find_matching_keywords(text, keywords) ==
  LET text_lower == lower(text)
  IN  SelectSeq(keywords, LAMBDA kw : Contains(text_lower, lower(kw)))

CODE_CHANGE_KEYWORDS ==
  <<
    <<"a","d","d">>,  \* add
    <<"i","m","p","l","e","m","e","n","t">>,  \* implement
    <<"c","r","e","a","t","e">>,  \* create
    <<"b","u","i","l","d">>,  \* build
    <<"d","e","v","e","l","o","p">>,  \* develop
    <<"f","i","x">>,  \* fix
    <<"b","u","g">>,  \* bug
    <<"e","r","r","o","r">>,  \* error
    <<"b","r","o","k","e","n">>,  \* broken
    <<"f","a","i","l","i","n","g">>,  \* failing
    <<"u","p","d","a","t","e">>,  \* update
    <<"m","o","d","i","f","y">>,  \* modify
    <<"c","h","a","n","g","e">>,  \* change
    <<"r","e","f","a","c","t","o","r">>,  \* refactor
    <<"r","e","m","o","v","e">>,  \* remove
    <<"d","e","l","e","t","e">>,  \* delete
    <<"d","e","p","r","e","c","a","t","e">>,  \* deprecate
    <<"c","o","n","f","i","g","u","r","e">>,  \* configure
    <<"e","n","a","b","l","e">>,  \* enable
    <<"d","i","s","a","b","l","e">>,  \* disable
    <<"i","n","t","e","g","r","a","t","e">>,  \* integrate
    <<"c","o","n","n","e","c","t">>,  \* connect
    <<"s","u","p","p","o","r","t">>  \* support
  >>

INVESTIGATION_KEYWORDS ==
  <<
    <<"n","o","t"," ","a","p","p","e","a","r","i","n","g">>,  \* not appearing
    <<"n","o","t"," ","s","h","o","w","i","n","g">>,  \* not showing
    <<"m","i","s","s","i","n","g">>,  \* missing
    <<"w","h","y">>,  \* why
    <<"i","n","v","e","s","t","i","g","a","t","e">>,  \* investigate
    <<"c","h","e","c","k">>,  \* check
    <<"l","o","o","k"," ","i","n","t","o">>,  \* look into
    <<"c","a","n","n","o","t"," ","f","i","n","d">>,  \* cannot find
    <<"d","o","e","s","n","'","t"," ","e","x","i","s","t">>,  \* doesn't exist
    <<"n","o"," ","r","e","s","u","l","t","s">>,  \* no results
    <<"n","o"," ","l","o","n","g","e","r">>,  \* no longer
    <<"n","o","t"," ","w","o","r","k","i","n","g">>,  \* not working
    <<"b","r","o","k","e","n"," ","l","i","n","k">>  \* broken link
  >>

SKIP_KEYWORDS ==
  <<
    <<"m","e","e","t","i","n","g">>,  \* meeting
    <<"w","a","i","t","i","n","g"," ","f","o","r">>,  \* waiting for
    <<"b","l","o","c","k","e","d"," ","b","y">>,  \* blocked by
    <<"p","e","n","d","i","n","g"," ","a","p","p","r","o","v","a","l">>,  \* pending approval
    <<"n","e","e","d"," ","a","c","c","e","s","s">>,  \* need access
    <<"c","r","e","d","e","n","t","i","a","l","s"," ","r","e","q","u","i","r","e","d">>,  \* credentials required
    <<"d","o","c","u","m","e","n","t","a","t","i","o","n"," ","o","n","l","y">>,  \* documentation only
    <<"w","r","i","t","e"," ","d","o","c","s">>,  \* write docs
    <<"u","p","d","a","t","e"," ","r","e","a","d","m","e">>  \* update readme
  >>

TEST_KEYWORDS ==
  <<
    <<"a","d","d"," ","t","e","s","t">>,  \* add test
    <<"w","r","i","t","e"," ","t","e","s","t">>,  \* write test
    <<"e","n","s","u","r","e"," ","t","e","s","t","s"," ","p","a","s","s">>,  \* ensure tests pass
    <<"t","e","s","t","s"," ","s","h","o","u","l","d"," ","p","a","s","s">>,  \* tests should pass
    <<"u","n","i","t"," ","t","e","s","t">>,  \* unit test
    <<"i","n","t","e","g","r","a","t","i","o","n"," ","t","e","s","t">>,  \* integration test
    <<"t","e","s","t"," ","c","o","v","e","r","a","g","e">>,  \* test coverage
    <<"p","y","t","e","s","t">>,  \* pytest
    <<"t","e","s","t"," ","f","o","r">>,  \* test for
    <<"v","e","r","i","f","y"," ","w","i","t","h"," ","t","e","s","t","s">>,  \* verify with tests
    <<"r","u","n"," ","t","e","s","t","s">>  \* run tests
  >>

BUILD_KEYWORDS ==
  <<
    <<"f","i","x"," ","b","u","i","l","d">>,  \* fix build
    <<"b","u","i","l","d"," ","f","a","i","l","u","r","e">>,  \* build failure
    <<"l","i","n","t"," ","e","r","r","o","r">>,  \* lint error
    <<"t","y","p","e"," ","e","r","r","o","r">>,  \* type error
    <<"m","y","p","y">>,  \* mypy
    <<"p","y","l","i","n","t">>,  \* pylint
    <<"f","l","a","k","e","8">>,  \* flake8
    <<"r","u","f","f">>,  \* ruff
    <<"b","l","a","c","k">>,  \* black
    <<"i","s","o","r","t">>,  \* isort
    <<"c","o","m","p","i","l","a","t","i","o","n"," ","e","r","r","o","r">>,  \* compilation error
    <<"s","y","n","t","a","x"," ","e","r","r","o","r">>,  \* syntax error
    <<"i","m","p","o","r","t"," ","e","r","r","o","r">>  \* import error
  >>

VAGUE_KEYWORDS ==
  <<
    <<"i","m","p","r","o","v","e">>,  \* improve
    <<"e","n","h","a","n","c","e">>,  \* enhance
    <<"b","e","t","t","e","r">>,  \* better
    <<"o","p","t","i","m","i","z","e">>,  \* optimize
    <<"c","l","e","a","n","u","p">>,  \* cleanup
    <<"r","e","f","a","c","t","o","r"," ","w","h","e","r","e"," ","n","e","e","d","e","d">>,  \* refactor where needed
    <<"a","s"," ","n","e","e","d","e","d">>,  \* as needed
    <<"i","f"," ","p","o","s","s","i","b","l","e">>,  \* if possible
    <<"c","o","n","s","i","d","e","r">>,  \* consider
    <<"m","a","y","b","e">>,  \* maybe
    <<"p","e","r","h","a","p","s">>,  \* perhaps
    <<"c","o","u","l","d">>,  \* could
    <<"m","i","g","h","t"," ","w","a","n","t"," ","t","o">>  \* might want to
  >>

DESIGN_DECISION_KEYWORDS ==
  <<
    <<"d","e","c","i","d","e"," ","h","o","w">>,  \* decide how
    <<"c","h","o","o","s","e"," ","b","e","t","w","e","e","n">>,  \* choose between
    <<"e","v","a","l","u","a","t","e"," ","o","p","t","i","o","n","s">>,  \* evaluate options
    <<"d","e","s","i","g","n">>,  \* design
    <<"a","r","c","h","i","t","e","c","t">>,  \* architect
    <<"p","r","o","p","o","s","e">>,  \* propose
    <<"r","e","s","e","a","r","c","h"," ","a","l","t","e","r","n","a","t","i","v","e","s">>,  \* research alternatives
    <<"w","h","i","c","h"," ","a","p","p","r","o","a","c","h">>,  \* which approach
    <<"w","h","a","t"," ","s","t","r","a","t","e","g","y">>,  \* what strategy
    <<"d","e","t","e","r","m","i","n","e"," ","t","h","e"," ","b","e","s","t">>  \* determine the best
  >>


(***************************************************************************)
(* Python values                                                            *)
(***************************************************************************)

\* Python's None where a string is expected
None == "None"

\* Python's None where a dict is expected, and the value of a result not yet computed
Nothing == [is_none |-> TRUE]

\* dict.get(key, default), a dict being a function on the keys it holds
Get(d, key, default) == IF key \in DOMAIN d THEN d[key] ELSE default

\* A float that is the quotient of two integers, kept as that quotient
Rat(n, d) == [num |-> n, den |-> d]

RatLeq(a, b) == a.num * b.den <= b.num * a.den

RatEq(a, b) == a.num * b.den = b.num * a.den

\* Python's min(a, b) and max(a, b): the first argument unless the second is
\* strictly smaller (larger)
RatMin(a, b) == IF RatLeq(a, b) THEN a ELSE b

RatMax(a, b) == IF RatLeq(b, a) THEN a ELSE b

(***************************************************************************)
(* classify_ticket_type                                                     *)
(***************************************************************************)

\* f"{summary}\n{description}"
FullText(summary_, description_) == summary_ \o <<"\n">> \o description_

\* "confidence": 0.9 of the skip override
SkipConfidence == Rat(9, 10)

\* "confidence": 0.5 of the default
DefaultConfidence == Rat(5, 10)

\* InvestigationWins with the absolute floor left out
InvestigationWinsNoFloor(investigation_score, code_change_score) ==
  investigation_score > code_change_score

\* if investigation_score > code_change_score and investigation_score >= 3
InvestigationWins(investigation_score, code_change_score) ==
  investigation_score > code_change_score /\ investigation_score >= 3

\* CodeChangeWins with the threshold one too high
CodeChangeWinsAboveTwo(code_change_score) == code_change_score > 2

\* if code_change_score >= 2
CodeChangeWins(code_change_score) == code_change_score >= 2

\* ScoreConfidence without the clamp at 1.0
ScoreConfidenceUnclamped(score) == Rat(score, 10)

\* min(score / 10, 1.0)
ScoreConfidence(score) == RatMin(Rat(score, 10), Rat(1, 1))

\* extracted_data = {"isbns": ..., "urls": ..., "file_refs": ..., "function_refs": ...}
ExtractedData(full_text) ==
  [isbns         |-> extract_isbns(full_text),
   urls          |-> extract_urls(full_text),
   file_refs     |-> extract_file_references(full_text),
   function_refs |-> extract_function_references(full_text)]

\* investigation_score = len(investigation_matches) * 2, plus 2 if has_urls
ScoreInvestigation(investigation_matches, extracted_data) ==
  Len(investigation_matches) * 2 + (IF Len(extracted_data.urls) > 0 THEN 2 ELSE 0)

\* code_change_score = len(code_change_matches) * 2, plus 3 if has_file_refs,
\* plus 2 if there are function references
ScoreCodeChange(code_change_matches, extracted_data) ==
  Len(code_change_matches) * 2
  + (IF Len(extracted_data.file_refs) > 0 THEN 3 ELSE 0)
  + (IF Len(extracted_data.function_refs) > 0 THEN 2 ELSE 0)

\* the returns of classify_ticket_type, in the order the code reaches them
ClassifyScored(extracted_data, skip_matches, investigation_matches, code_change_matches, investigation_score, code_change_score) ==
  IF Len(skip_matches) > 0
  THEN [type |-> "SKIP",
        confidence |-> SkipConfidence,
        reason |-> [text |-> "Contains skip indicators", detail |-> skip_matches],
        extracted_data |-> extracted_data]
  ELSE IF InvestigationWins(investigation_score, code_change_score)
  THEN [type |-> "INVESTIGATION",
        confidence |-> ScoreConfidence(investigation_score),
        reason |-> [text |-> "Investigation indicators", detail |-> investigation_matches],
        extracted_data |-> extracted_data]
  ELSE IF CodeChangeWins(code_change_score)
  THEN [type |-> "CODE_CHANGE",
        confidence |-> ScoreConfidence(code_change_score),
        reason |-> [text |-> "Code change indicators", detail |-> code_change_matches],
        extracted_data |-> extracted_data]
  ELSE [type |-> "SKIP",
        confidence |-> DefaultConfidence,
        reason |-> [text |-> "No clear action indicators found", detail |-> <<>>],
        extracted_data |-> extracted_data]

\* the scores from the matches and the extracted data
ClassifyMatched(extracted_data, skip_matches, investigation_matches, code_change_matches) ==
  ClassifyScored(extracted_data, skip_matches, investigation_matches, code_change_matches,
                 ScoreInvestigation(investigation_matches, extracted_data),
                 ScoreCodeChange(code_change_matches, extracted_data))

\* the searches of the full text
ClassifyText(full_text) ==
  ClassifyMatched(ExtractedData(full_text),
                  find_matching_keywords(full_text, SKIP_KEYWORDS),
                  find_matching_keywords(full_text, INVESTIGATION_KEYWORDS),
                  find_matching_keywords(full_text, CODE_CHANGE_KEYWORDS))

classify_ticket_type(summary_, description_) ==
  ClassifyText(FullText(summary_, description_))

(***************************************************************************)
(* assess_ralph_eligibility                                                 *)
(***************************************************************************)

TestMarkers == << <<"t","e","s","t","_">>, <<"_","t","e","s","t">>, <<"t","e","s","t","s">> >>

SourceRoots == << <<"c","o","n","f","i","g","/">>, <<"l","i","b","/">>, <<"s","r","c","/">> >>

\* the test of one reference: it ends in .py, and its base name (every ".py"
\* removed) holds a test marker or the reference lies under a source root
IsTestedRef(ref, base_name) ==
  /\ EndsWith(ref, <<".", "p", "y">>)
  /\ \/ \E p \in 1..Len(TestMarkers) : Contains(base_name, TestMarkers[p])
     \/ \E r \in 1..Len(SourceRoots) : Contains(ref, SourceRoots[r])

has_test_file_for_refs(file_refs) ==
  \E i \in 1..Len(file_refs) :
    IsTestedRef(file_refs[i], Replace(file_refs[i], <<".", "p", "y">>, <<>>))

\* the statements `if cond: score += weight; list.append(name)` of the scorer,
\* in the order the code runs them; each entry is <<cond, weight, name>>
RECURSIVE Accumulate(_, _)
Accumulate(steps, acc) ==
  IF Len(steps) = 0 THEN acc
  ELSE LET s == steps[1]
       IN  Accumulate(Tail(steps),
             IF s[1] THEN [score |-> acc.score + s[2], names |-> Append(acc.names, s[3])]
             ELSE acc)

\* Eligible with the disqualifiers left to the score alone
EligibleByScoreOnly(score, disqualifiers) == score >= 3

\* Eligible with no_specific_scope blocking like the other disqualifiers
EligibleWithoutDisqualifier(score, disqualifiers) ==
  score >= 3 /\ Len(disqualifiers) = 0

\* eligible = score >= 3 and no disqualifier other than "no_specific_scope"
Eligible(score, disqualifiers) ==
  /\ score >= 3
  /\ Len(SelectSeq(disqualifiers, LAMBDA d : d # "no_specific_scope")) = 0

\* max(min(score / 6, 1.0), 0.0)
EligibilityConfidence(score) == RatMax(RatMin(Rat(score, 6), Rat(1, 1)), Rat(0, 1))

NotCodeChange ==
  [eligible |-> FALSE,
   confidence |-> Rat(0, 1),
   criteria_met |-> <<>>,
   disqualifiers |-> <<"not_code_change">>,
   reason |-> [text |-> "Not a CODE_CHANGE ticket", detail |-> <<>>]]

\* the dict returned for a CODE_CHANGE ticket
Assessment(score, criteria_met, disqualifiers, eligible) ==
  [eligible |-> eligible,
   confidence |-> EligibilityConfidence(score),
   criteria_met |-> criteria_met,
   disqualifiers |-> disqualifiers,
   reason |-> IF eligible
              THEN [text |-> "Ralph-eligible", detail |-> criteria_met]
              ELSE IF Len(disqualifiers) > 0
              THEN [text |-> "Not Ralph-eligible", detail |-> disqualifiers]
              ELSE [text |-> "Not Ralph-eligible: insufficient verifiable criteria",
                    detail |-> <<score>>]]

\* the decision, from the criteria met and the disqualifiers found
Decide(met, dis) == Assessment(dis.score, met.names, dis.names, Eligible(dis.score, dis.names))

\* the disqualifiers, their weights added to the score the criteria reached
Disqualify(full_text, file_refs, function_refs, met) ==
  Decide(met,
    Accumulate(
      << <<Len(find_matching_keywords(full_text, VAGUE_KEYWORDS)) > 0, -2,
           "vague_requirements">>,
         <<Len(find_matching_keywords(full_text, DESIGN_DECISION_KEYWORDS)) > 0, -3,
           "requires_design_decisions">>,
         <<Len(file_refs) = 0 /\ Len(function_refs) = 0, -1,
           "no_specific_scope">> >>,
      [score |-> met.score, names |-> <<>>]))

\* the criteria, from a score of 0
AssessRefs(full_text, file_refs, function_refs) ==
  Disqualify(full_text, file_refs, function_refs,
    Accumulate(
      << <<has_test_file_for_refs(file_refs), 3, "existing_tests">>,
         <<Len(find_matching_keywords(full_text, TEST_KEYWORDS)) > 0, 2,
           "test_requirements">>,
         <<Len(find_matching_keywords(full_text, BUILD_KEYWORDS)) > 0, 2,
           "build_criteria">>,
         <<Len(file_refs) >= 1, 1, "specific_files">>,
         <<Len(function_refs) > 0, 1, "specific_functions">> >>,
      [score |-> 0, names |-> <<>>]))

\* file_refs and function_refs of the classification's extracted data
AssessExtracted(full_text, extracted_data) ==
  AssessRefs(full_text,
             Get(extracted_data, "file_refs", <<>>),
             Get(extracted_data, "function_refs", <<>>))

\* assess_ralph_eligibility without the test of the classification's type
assess_any_type(ticket_data, classification_) ==
  AssessExtracted(FullText(Get(ticket_data, "summary", <<>>),
                           Get(ticket_data, "description", <<>>)),
                  Get(classification_, "extracted_data", <<>>))

assess_ralph_eligibility(ticket_data, classification_) ==
  IF Get(classification_, "type", None) # "CODE_CHANGE" THEN NotCodeChange
  ELSE AssessExtracted(FullText(Get(ticket_data, "summary", <<>>),
                                Get(ticket_data, "description", <<>>)),
                       Get(classification_, "extracted_data", <<>>))
(***************************************************************************)
(* config_loader.py                                                         *)
(***************************************************************************)

\* {**a, **b}: the keys of both, b's value where both hold the key
DictMerge(a, b) == b @@ a

DEFAULT_CONFIG ==
  [jira |-> [projects |-> <<>>,
             statuses |-> <<"Open", "In Progress", "To Do">>,
             max_tickets_per_run |-> 10],
   github |-> [owner |-> None, repo |-> None, base_branch |-> "main",
               branch_prefix |-> "feature/"],
   verification |-> [max_fix_attempts |-> 3,
                     test_command |-> "python -m pytest",
                     build_command |-> "docker-compose build",
                     timeout_seconds |-> 300]]

\* The variable fs is what load_repo_config finds on disk: whether a .git
\* directory is found above the working directory (repo_root), the parsed content
\* of .claude/jira-config.yaml and of .claude/jira-config.json (None: no such
\* file), and whether the yaml module could be imported (HAS_YAML).  An empty
\* yaml document parses to Python's None, which `or {}` turns into the empty
\* dict <<>>.  Every value of DEFAULT_CONFIG is a dict, so the merge always
\* takes the isinstance(..., dict) branch.
MergeIntoDefaults(repo_config) ==
  [key \in DOMAIN DEFAULT_CONFIG |->
     IF key \in DOMAIN repo_config
     THEN DictMerge(DEFAULT_CONFIG[key], repo_config[key])
     ELSE DEFAULT_CONFIG[key]]

load_repo_config ==
  IF ~fs.repo_root THEN DEFAULT_CONFIG
  ELSE IF fs.yaml # Nothing /\ fs.HAS_YAML THEN MergeIntoDefaults(fs.yaml)
  ELSE IF fs.json # Nothing THEN MergeIntoDefaults(fs.json)
  ELSE DEFAULT_CONFIG

get_verification_config ==
  Get(load_repo_config, "verification", DEFAULT_CONFIG.verification)

get_code_mapping ==
  Get(Get(load_repo_config, "code_mapping", <<>>), "patterns", <<>>)

get_index_url_mapping ==
  Get(load_repo_config, "index_url_mapping", <<>>)

(***************************************************************************)
(* code_mapper.py                                                           *)
(***************************************************************************)

DEFAULT_CODE_MAPPING_RULES ==
  << [keywords |-> << <<"i","n","d","e","x">>,
                      <<"i","n","d","i","c","e","s">>,
                      <<"f","i","l","t","e","r">>,
                      <<"f","i","l","t","e","r","i","n","g">>,
                      <<"s","i","t","e"," ","c","o","n","f","i","g">> >>,
      files    |-> <<"config/indexConfig.py">>],
     [keywords |-> << <<"c","o","n","f","i","g">>,
                      <<"c","o","n","f","i","g","u","r","a","t","i","o","n">>,
                      <<"s","e","t","t","i","n","g","s">> >>,
      files    |-> <<"config/">>] >>

\* return repo_rules if repo_rules else DEFAULT_CODE_MAPPING_RULES
RulesOrDefault(repo_rules) ==
  IF Len(repo_rules) > 0 THEN repo_rules ELSE DEFAULT_CODE_MAPPING_RULES

get_code_mapping_rules == RulesOrDefault(get_code_mapping)

get_index_url_map == get_index_url_mapping

RECURSIVE InsertByConfidenceUnstable(_, _)
\* InsertByConfidence placing x before the entries of its own confidence
InsertByConfidenceUnstable(sorted, x) ==
  IF Len(sorted) = 0 THEN <<x>>
  ELSE IF ~RatLeq(sorted[1].confidence, x.confidence)
       THEN <<sorted[1]>> \o InsertByConfidenceUnstable(Tail(sorted), x)
       ELSE <<x>> \o sorted

RECURSIVE InsertByConfidence(_, _)
\* x placed after every entry whose confidence is not smaller than its own
InsertByConfidence(sorted, x) ==
  IF Len(sorted) = 0 THEN <<x>>
  ELSE IF RatLeq(x.confidence, sorted[1].confidence)
       THEN <<sorted[1]>> \o InsertByConfidence(Tail(sorted), x)
       ELSE <<x>> \o sorted

RECURSIVE SortByConfidence(_, _)
\* list.sort(key=confidence, reverse=True): descending and stable
SortByConfidence(results, sorted) ==
  IF Len(results) = 0 THEN sorted
  ELSE SortByConfidence(Tail(results), InsertByConfidence(sorted, results[1]))

\* one entry per file of the rule when a keyword of it matched
EntriesOf(rule, matched_keywords) ==
  IF Len(matched_keywords) > 0
  THEN [f \in 1..Len(rule.files) |->
          [file |-> rule.files[f],
           keywords_matched |-> matched_keywords,
           confidence |-> RatMin(Rat(Len(matched_keywords), Len(rule.keywords)),
                                 Rat(1, 1))]]
  ELSE <<>>

RECURSIVE RuleEntries(_, _)
\* the loop over the rules, appending the entries of each
RuleEntries(text_lower, rules_) ==
  IF Len(rules_) = 0 THEN <<>>
  ELSE EntriesOf(rules_[1],
         SelectSeq(rules_[1].keywords, LAMBDA kw : Contains(text_lower, lower(kw))))
       \o RuleEntries(text_lower, Tail(rules_))

\* the body of map_keywords_to_files once `rules = get_code_mapping_rules()` is known
MapWithRules(text, rules_) == SortByConfidence(RuleEntries(lower(text), rules_), <<>>)

map_keywords_to_files(text) == MapWithRules(text, get_code_mapping_rules)

\* for url in urls: for domain, index_name in mapping.items(): ...; a set
IndicesOfUrls(urls, mapping) ==
  { mapping[domain] :
      domain \in { d \in DOMAIN mapping :
                     \E u \in 1..Len(urls) : Contains(lower(urls[u]), d) } }

extract_index_from_urls(urls) == IndicesOfUrls(urls, get_index_url_map)

\* IndicesOfText without the test of the index name
IndicesOfTextByDomain(text_lower, mapping) ==
  { mapping[domain] :
      domain \in { d \in DOMAIN mapping : Contains(text_lower, lower(d)) } }

\* list(set(indices)); a set
IndicesOfText(text_lower, mapping) ==
  { mapping[domain] :
      domain \in { d \in DOMAIN mapping :
                     \/ Contains(text_lower, lower(mapping[d]))
                     \/ Contains(text_lower, lower(d)) } }

extract_index_from_text(text) == IndicesOfText(lower(text), get_index_url_map)

RECURSIVE PrimaryLoopNoSeen(_, _, _)
\* PrimaryLoop with the `not in seen` test left out
PrimaryLoopNoSeen(mappings, seen, primary) ==
  IF Len(mappings) = 0 THEN primary
  ELSE IF RatLeq(Rat(3, 10), mappings[1].confidence)
       THEN PrimaryLoopNoSeen(Tail(mappings), seen, Append(primary, mappings[1].file))
       ELSE PrimaryLoopNoSeen(Tail(mappings), seen, primary)

RECURSIVE PrimaryLoop(_, _, _)
\* the loop of get_primary_files over the mappings, with its seen set
PrimaryLoop(mappings, seen, primary) ==
  IF Len(mappings) = 0 THEN primary
  ELSE IF mappings[1].file \notin seen /\ RatLeq(Rat(3, 10), mappings[1].confidence)
       THEN PrimaryLoop(Tail(mappings), seen \cup {mappings[1].file},
                        Append(primary, mappings[1].file))
       ELSE PrimaryLoop(Tail(mappings), seen, primary)

\* s[:n]
Prefix(s, n) == SubSeq(s, 1, IF Len(s) < n THEN Len(s) ELSE n)

\* the body of get_primary_files once `mappings = map_keywords_to_files(text)` is known
PrimaryOf(mappings) == Prefix(PrimaryLoop(mappings, {}, <<>>), 5)

get_primary_files(text) == PrimaryOf(map_keywords_to_files(text))

(***************************************************************************)
(* analyze_ticket.py                                                        *)
(***************************************************************************)

\* the positional parameters of classify_ticket_type(summary, description)
ClassifyTicketTypeParams == 2

\* classification with the keys the CODE_CHANGE branch assigns
WithRalph(ticket_data, with_files) ==
  [ralph_eligibility |-> assess_ralph_eligibility(ticket_data, with_files)] @@ with_files

\* the branches on classification["type"]
Annotated(summary_, description_, comments_, full_text, classification_) ==
  IF classification_.type = "CODE_CHANGE"
  THEN WithRalph([summary |-> summary_, description |-> description_,
                  comments |-> comments_],
                 [suggested_files |-> get_primary_files(full_text),
                  file_mappings |-> Prefix(map_keywords_to_files(full_text), 5)]
                 @@ classification_)
  ELSE IF classification_.type = "INVESTIGATION"
  THEN [suggested_indices |->
          extract_index_from_urls(extract_urls(full_text))
          \cup extract_index_from_text(full_text)]
       @@ classification_
  ELSE classification_

\* full_text = f"{summary}\n{description}", with "\n" and the comments when given
AnalysisText(joined, comments_) ==
  IF Len(comments_) > 0 THEN joined \o <<"\n">> \o comments_ ELSE joined

\* A Python call with more positional arguments than the function has
\* parameters raises TypeError before the function's body runs.
analyze_ticket(summary_, description_, comments_) ==
  IF Len(<<summary_, description_, comments_>>) # ClassifyTicketTypeParams
  THEN [raised |-> "TypeError"]
  ELSE Annotated(summary_, description_, comments_,
                 AnalysisText(FullText(summary_, description_), comments_),
                 classify_ticket_type(summary_, description_))
(***************************************************************************)
(* verify_build.py                                                          *)
(***************************************************************************)

DigitChars == <<"0", "1", "2", "3", "4", "5", "6", "7", "8", "9">>

RECURSIVE DecimalDigits(_)
\* str(n), as an f-string formats a non-negative int
DecimalDigits(n) ==
  IF n < 10 THEN <<DigitChars[n + 1]>>
  ELSE DecimalDigits(n \div 10) \o <<DigitChars[(n % 10) + 1]>>

\* the k-th smallest element of a set of positions
NthCut(cuts, k) == CHOOSE p \in cuts : Cardinality({ q \in cuts : q < p }) = k - 1

\* the pieces of text between consecutive cuts
Pieces(text, cuts) ==
  [k \in 1..(Cardinality(cuts) - 1) |->
     SubSeq(text, NthCut(cuts, k) + 1, NthCut(cuts, k + 1) - 1)]

\* str.split(sep) for a one-character sep
Split(text, sep) ==
  Pieces(text, {0, Len(text) + 1} \cup { i \in 1..Len(text) : text[i] = sep })

RECURSIVE LStrip(_)
LStrip(s) == IF Len(s) > 0 /\ s[1] \in Whitespace THEN LStrip(Tail(s)) ELSE s

RECURSIVE RStrip(_)
RStrip(s) ==
  IF Len(s) > 0 /\ s[Len(s)] \in Whitespace THEN RStrip(SubSeq(s, 1, Len(s) - 1)) ELSE s

\* str.strip()
strip(s) == RStrip(LStrip(s))

\* How a command ends is the operating system's choice, held in `outcome`: the
\* process completed with a return code and its captured output, the timeout
\* expired first (subprocess.TimeoutExpired), or subprocess.run raised another
\* Exception because the process could not be started.
run_command(command, timeout, outcome) ==
  IF outcome.kind = "completed"
  THEN [exit_code |-> outcome.returncode, stdout |-> outcome.stdout, stderr |-> outcome.stderr]
  ELSE IF outcome.kind = "TimeoutExpired"
  THEN [exit_code |-> -1, stdout |-> <<>>,
        stderr |-> <<"C","o","m","m","a","n","d"," ","t","i","m","e","d"," ","o","u","t"," ","a","f","t","e","r"," ">> \o DecimalDigits(timeout) \o <<" ","s","e","c","o","n","d","s">>]
  ELSE [exit_code |-> -1, stdout |-> <<>>, stderr |-> outcome.message]

\* the dict a "FAILED " line opens
NewFailure(line) ==
  [test  |-> Split(Replace(line, <<"F","A","I","L","E","D"," ">>, <<>>), " ")[1],
   error |-> <<>>,
   type  |-> "test_failure"]

\* failures.append(current_failure) under `if current_failure:`
WithCurrent(failures, current_failure) ==
  IF current_failure # Nothing THEN Append(failures, current_failure) ELSE failures

RECURSIVE PytestLoop(_, _, _, _)
PytestLoop(lines, i, failures, current_failure) ==
  IF i > Len(lines) THEN WithCurrent(failures, current_failure)
  ELSE IF HasAt(lines[i], 1, <<"F","A","I","L","E","D"," ">>)
  THEN PytestLoop(lines, i + 1, WithCurrent(failures, current_failure), NewFailure(lines[i]))
  ELSE IF /\ current_failure # Nothing
          /\ (Contains(lines[i], <<"E","r","r","o","r">>) \/ Contains(lower(lines[i]), <<"a","s","s","e","r","t">>))
  THEN PytestLoop(lines, i + 1, failures,
                  [current_failure EXCEPT !.error = @ \o lines[i] \o <<"\n">>])
  ELSE PytestLoop(lines, i + 1, failures, current_failure)

parse_pytest_failures(output) == PytestLoop(Split(output, "\n"), 1, <<>>, Nothing)

RECURSIVE BuildLoop(_, _)
\* enumerate counts from 0 and "line" is i + 1: the position counted from 1
BuildLoop(lines, i) ==
  IF i > Len(lines) THEN <<>>
  ELSE (IF Contains(lower(lines[i]), <<"e","r","r","o","r">>) \/ Contains(lines[i], <<"E","r","r","o","r",":">>)
        THEN << [line |-> i, message |-> strip(lines[i]), type |-> "build_error"] >>
        ELSE <<>>)
       \o BuildLoop(lines, i + 1)

parse_build_errors(output) == BuildLoop(Split(output, "\n"), 1)

\* output[-2000:] if len(output) > 2000 else output
OutputSummary(output) ==
  IF Len(output) > 2000 THEN SubSeq(output, Len(output) - 1999, Len(output)) ELSE output

\* the dict run_tests builds from what run_command returned
TestsResult(exit_code, output) ==
  [passed         |-> exit_code = 0,
   exit_code      |-> exit_code,
   failures       |-> IF exit_code # 0 THEN parse_pytest_failures(output) ELSE <<>>,
   output_summary |-> OutputSummary(output)]

TestsRan(ran) == TestsResult(ran.exit_code, ran.stdout \o ran.stderr)

TestCommand == Get(get_verification_config, "test_command", "python -m pytest -v --tb=short")

BuildCommand == Get(get_verification_config, "build_command", "docker-compose build")

TimeoutSeconds == Get(get_verification_config, "timeout_seconds", 300)

run_tests(outcome) == TestsRan(run_command(TestCommand, TimeoutSeconds, outcome))

\* the dict run_build builds from what run_command returned
BuildResult(exit_code, output) ==
  [passed         |-> exit_code = 0,
   exit_code      |-> exit_code,
   errors         |-> IF exit_code # 0 THEN parse_build_errors(output) ELSE <<>>,
   output_summary |-> OutputSummary(output)]

BuildRan(ran) == BuildResult(ran.exit_code, ran.stdout \o ran.stderr)

run_build(outcome) == BuildRan(run_command(BuildCommand, TimeoutSeconds, outcome))

\* the result dict verify_all starts from
InitialResult ==
  [success |-> TRUE, tests_passed |-> None, build_passed |-> None,
   failures |-> <<>>, error_messages |-> <<>>]

\* f"Test failure in {f['test']}: {f['error'][:500]}" for the failures given
TestMessagesOf(with_error) ==
  [i \in 1..Len(with_error) |->
     <<"T","e","s","t"," ","f","a","i","l","u","r","e"," ","i","n"," ">> \o with_error[i].test \o <<":"," ">> \o Prefix(with_error[i].error, 500)]

\* the messages of the failures that carry an error text
TestMessages(failures) == TestMessagesOf(SelectSeq(failures, LAMBDA f : f.error # <<>>))

\* f"Build error: {e['message']}" for every error
BuildMessages(errors) == [i \in 1..Len(errors) |-> <<"B","u","i","l","d"," ","e","r","r","o","r",":"," ">> \o errors[i].message]

\* verify_all from `test_result = run_tests()` to the end of the first `if`
AfterTests(result, test_result) ==
  IF test_result.passed
  THEN [result EXCEPT !.tests_passed = TRUE]
  ELSE [result EXCEPT !.tests_passed = FALSE,
                      !.success = FALSE,
                      !.failures = @ \o test_result.failures,
                      !.error_messages = @ \o TestMessages(test_result.failures)]

\* AfterBuild that leaves success as the tests left it
AfterBuildKeepingSuccess(result, build_result) ==
  IF build_result.passed
  THEN [result EXCEPT !.build_passed = TRUE]
  ELSE [result EXCEPT !.build_passed = FALSE,
                      !.failures = @ \o build_result.errors,
                      !.error_messages = @ \o BuildMessages(build_result.errors)]

\* verify_all from `build_result = run_build()` to the end of the second `if`
AfterBuild(result, build_result) ==
  IF build_result.passed
  THEN [result EXCEPT !.build_passed = TRUE]
  ELSE [result EXCEPT !.build_passed = FALSE,
                      !.success = FALSE,
                      !.failures = @ \o build_result.errors,
                      !.error_messages = @ \o BuildMessages(build_result.errors)]

(***************************************************************************)
(* comment_detector.py                                                      *)
(***************************************************************************)

\* the characters of the created strings, in code point order
CodePoints == <<"-", "0", "1", "2", "3", "4", "5", "6", "7", "8", "9", ":", "T", "Z">>

Ord(c) == CHOOSE i \in 1..Len(CodePoints) : CodePoints[i] = c

RECURSIVE StrLess(_, _)
\* Python's a < b on strings: by the first differing character, a proper prefix
\* being the smaller
StrLess(a, b) ==
  IF Len(b) = 0 THEN FALSE
  ELSE IF Len(a) = 0 THEN TRUE
  ELSE IF a[1] # b[1] THEN Ord(a[1]) < Ord(b[1])
  ELSE StrLess(Tail(a), Tail(b))

\* comment.get("author", {}).get("accountId")
AuthorOf(comment) == Get(Get(comment, "author", <<>>), "accountId", None)

find_user_comments(comments_, account_id) ==
  IF Len(comments_) = 0 \/ account_id = "" THEN <<>>
  ELSE SelectSeq(comments_, LAMBDA comment : AuthorOf(comment) = account_id)

RECURSIVE MaxByCreated(_, _)
\* max(list, key=created): the first element no later element's key exceeds
MaxByCreated(list, best) ==
  IF Len(list) = 0 THEN best
  ELSE MaxByCreated(Tail(list),
         IF StrLess(Get(best, "created", <<>>), Get(list[1], "created", <<>>))
         THEN list[1] ELSE best)

get_latest_user_comment(comments_, account_id) ==
  LET user_comments == find_user_comments(comments_, account_id)
  IN  IF Len(user_comments) = 0 THEN Nothing
      ELSE MaxByCreated(Tail(user_comments), user_comments[1])

\* get_comments_after with `created >= after_timestamp` for `created > after_timestamp`
get_comments_at_or_after(comments_, after_timestamp, exclude_account_id) ==
  IF Len(comments_) = 0 \/ Len(after_timestamp) = 0 THEN <<>>
  ELSE SelectSeq(comments_,
         LAMBDA comment :
           /\ ~StrLess(Get(comment, "created", <<>>), after_timestamp)
           /\ ~(exclude_account_id \notin {None, ""}
                /\ AuthorOf(comment) = exclude_account_id))

get_comments_after(comments_, after_timestamp, exclude_account_id) ==
  IF Len(comments_) = 0 \/ Len(after_timestamp) = 0 THEN <<>>
  ELSE SelectSeq(comments_,
         LAMBDA comment :
           /\ StrLess(after_timestamp, Get(comment, "created", <<>>))
           /\ ~(exclude_account_id \notin {None, ""}
                /\ AuthorOf(comment) = exclude_account_id))

has_followup_from_others(comments_, account_id) ==
  LET latest_user_comment == get_latest_user_comment(comments_, account_id)
  IN  IF latest_user_comment = Nothing THEN FALSE
      ELSE LET after_timestamp == Get(latest_user_comment, "created", <<>>)
               newer_comments == get_comments_after(comments_, after_timestamp, account_id)
           IN  Len(newer_comments) > 0

(***************************************************************************)
(* Inputs                                                                   *)
(***************************************************************************)

\* the most words a ticket's summary and description hold together
MaxWords == 2

\* The words tickets are written from.  A ticket's summary followed by its
\* description is a selection of these words in this order, joined by single
\* blanks; "link" follows "why is this broken" so that the two-word keyword
\* "broken link" can arise across a word gap (and not across the newline).
Vocabulary ==
  <<
    <<"w","h","y">>,  \* why
    <<"w","h","y"," ","i","s"," ","t","h","i","s"," ","b","r","o","k","e","n">>,  \* why is this broken
    <<"l","i","n","k">>,  \* link
    <<"m","i","s","s","i","n","g">>,  \* missing
    <<"f","i","x">>,  \* fix
    <<"h","t","t","p","s",":","/","/","x",".","i","o","/","a">>,  \* https://x.io/a
    <<"c","o","n","f","i","g","/","f","o","o","_","t","e","s","t",".","p","y">>,  \* config/foo_test.py
    <<"d","e","f"," ","r","u","n">>,  \* def run
    <<"U","p","d","a","t","e"," ","R","E","A","D","M","E">>,  \* Update README
    <<"d","e","s","i","g","n"," ","t","h","e"," ","a","p","p","r","o","a","c","h">>,  \* design the approach
    <<"i","m","p","r","o","v","e">>,  \* improve
    <<"p","y","t","e","s","t">>,  \* pytest
    <<"m","y","p","y">>  \* mypy
  >>

RECURSIVE WordsOf(_)
\* the words with the indices in S, in vocabulary order
WordsOf(S) ==
  IF S = {} THEN <<>>
  ELSE LET i == CHOOSE x \in S : \A y \in S : x <= y
       IN  <<Vocabulary[i]>> \o WordsOf(S \ {i})

Sentence(words) == JoinWith(<<" ">>, words)

\* the (summary, description) pairs of the tickets considered
Tickets ==
  { [summary     |-> Sentence(SubSeq(WordsOf(S), 1, k)),
     description |-> Sentence(SubSeq(WordsOf(S), k + 1, Cardinality(S)))] :
      <<S, k>> \in { <<T, j>> \in (SUBSET (1..Len(Vocabulary))) \X (0..MaxWords) :
                       Cardinality(T) <= MaxWords /\ j <= Cardinality(T) } }

(***************************************************************************)
(* The invocations                                                          *)
(***************************************************************************)

NoTicket ==
  /\ summary = <<>>
  /\ description = <<>>
  /\ ticket_comments = <<>>
  /\ classification = Nothing
  /\ passed = Nothing
  /\ ralph_assessment = Nothing
  /\ analysis = Nothing

NoComments ==
  /\ comments = <<>>
  /\ user_account_id = ""
  /\ latest = Nothing
  /\ followup = None

NoRepository == [repo_root |-> FALSE, yaml |-> Nothing, json |-> Nothing, HAS_YAML |-> FALSE]

NoConfig ==
  /\ config = Nothing
  /\ rules = Nothing
  /\ index_map = Nothing

NoMapping ==
  /\ input_text = <<>>
  /\ input_urls = <<>>
  /\ mapped = Nothing
  /\ primary_files = Nothing
  /\ found_indices = Nothing

NoVerification ==
  /\ runner = Nothing
  /\ log = <<>>
  /\ verification = Nothing

(* ---- a ticket is classified, assessed, analyzed ---- *)

\* the classifications a caller may hand to assess_ralph_eligibility besides the
\* one classify_ticket_type returned for the ticket
FileRefLists ==
  { <<>>,
    << <<"p","y">> >>,
    << <<"a","p","p",".","p","y">> >>,
    << <<"c","o","n","f","i","g","/","f","o","o","_","t","e","s","t",".","p","y">> >> }

FunctionRefLists == { <<>>, << <<"d","e","f"," ","r","u","n">> >> }

OtherClassifications ==
  { [type |-> "CODE_CHANGE",
     extracted_data |-> [file_refs |-> f, function_refs |-> g]] :
      f \in FileRefLists, g \in FunctionRefLists }
  \cup { [type |-> "CODE_CHANGE"] }
  \cup { [type |-> t,
          extracted_data |-> [file_refs |-> f, function_refs |-> <<>>]] :
           t \in {"INVESTIGATION", "SKIP"}, f \in FileRefLists }
  \cup { [extracted_data |-> [file_refs |-> f, function_refs |-> <<>>]] :
           f \in FileRefLists }

\* the comments strings analyze_ticket is called with
CommentTexts == { <<>>, <<"f","i","x">> }

Init ==
  /\ pc = "start"
  /\ \E t \in Tickets : summary = t.summary /\ description = t.description
  /\ ticket_comments = <<>>
  /\ classification = Nothing
  /\ passed = Nothing
  /\ ralph_assessment = Nothing
  /\ analysis = Nothing
  /\ NoComments
  /\ fs = NoRepository
  /\ NoConfig
  /\ NoMapping
  /\ NoVerification

ClassifyTicketType ==
  /\ pc = "start"
  /\ classification' = classify_ticket_type(summary, description)
  /\ pc' = "classified"
  /\ UNCHANGED <<summary, description, ticket_comments, passed, ralph_assessment, analysis>>
  /\ UNCHANGED <<comment_vars, config_vars, mapper_vars, verify_vars>>

AssessRalphEligibility ==
  /\ pc = "classified"
  /\ \E c \in {classification} \cup OtherClassifications :
       /\ passed' = c
       /\ ralph_assessment' =
            assess_ralph_eligibility([summary |-> summary, description |-> description], c)
  /\ pc' = "assessed"
  /\ UNCHANGED <<summary, description, ticket_comments, classification, analysis>>
  /\ UNCHANGED <<comment_vars, config_vars, mapper_vars, verify_vars>>

AnalyzeTicket ==
  /\ pc = "start"
  /\ \E c \in CommentTexts :
       /\ ticket_comments' = c
       /\ analysis' = analyze_ticket(summary, description, c)
  /\ pc' = "analyzed"
  /\ UNCHANGED <<summary, description, classification, passed, ralph_assessment>>
  /\ UNCHANGED <<comment_vars, config_vars, mapper_vars, verify_vars>>

Next == ClassifyTicketType \/ AssessRalphEligibility \/ AnalyzeTicket

Spec == Init /\ [][Next]_vars

(* ---- a comment list is asked for follow-ups ---- *)

\* the most comments a list holds
MaxComments == 2

AccountIds == {"", "u1", "u2"}

\* created strings: empty, and three that string order and length order differently
CreatedStrings == { <<>>, <<"1">>, <<"1", "2">>, <<"2">> }

\* a comment may lack its author (or the author its accountId) and its created
Comments ==
  { a @@ c :
      a \in {<<>>} \cup { [author |-> [accountId |-> id]] : id \in AccountIds },
      c \in {<<>>} \cup { [created |-> t] : t \in CreatedStrings } }

RECURSIVE ListsUpTo(_, _)
\* the sequences of at most n elements of S
ListsUpTo(S, n) ==
  IF n = 0 THEN { <<>> }
  ELSE LET shorter == ListsUpTo(S, n - 1)
       IN  shorter \cup { Append(l, x) : l \in { m \in shorter : Len(m) = n - 1 }, x \in S }

InitComments ==
  /\ pc = "start"
  /\ NoTicket
  /\ comments \in ListsUpTo(Comments, MaxComments)
  /\ user_account_id \in AccountIds
  /\ latest = Nothing
  /\ followup = None
  /\ fs = NoRepository
  /\ NoConfig
  /\ NoMapping
  /\ NoVerification

GetLatestUserComment ==
  /\ pc = "start"
  /\ latest' = get_latest_user_comment(comments, user_account_id)
  /\ pc' = "latest"
  /\ UNCHANGED <<comments, user_account_id, followup>>
  /\ UNCHANGED <<ticket_vars, config_vars, mapper_vars, verify_vars>>

HasFollowupFromOthers ==
  /\ pc = "start"
  /\ followup' = has_followup_from_others(comments, user_account_id)
  /\ pc' = "followup"
  /\ UNCHANGED <<comments, user_account_id, latest>>
  /\ UNCHANGED <<ticket_vars, config_vars, mapper_vars, verify_vars>>

NextComments == GetLatestUserComment \/ HasFollowupFromOthers

SpecComments == InitComments /\ [][NextComments]_vars

(* ---- the configuration is loaded ---- *)

SuppliedRules ==
  << [keywords |-> << <<"i","s","b","n">>, <<"c","a","t","a","l","o","g">> >>,
      files    |-> <<"lib/isbn.py", "lib/catalog.py">>] >>

SuppliedIndexMapping ==
  <<"s","h","o","p",".","e","x","a","m","p","l","e",".","c","o","m">>
    :> <<"s","h","o","p","_","p","r","o","d","u","c","t","s">>

\* the contents a jira-config file may have
ConfigFiles ==
  { <<>>,
    [code_mapping |-> [patterns |-> SuppliedRules]],
    [code_mapping |-> [patterns |-> <<>>]],
    [index_url_mapping |-> SuppliedIndexMapping],
    [code_mapping |-> [patterns |-> SuppliedRules],
     index_url_mapping |-> SuppliedIndexMapping,
     verification |-> [test_command |-> "make test"]],
    [jira |-> [projects |-> <<"LIB">>], github |-> [owner |-> "acme", repo |-> "shop"]],
    [verification |-> [build_command |-> "make", timeout_seconds |-> 60]] }

FileSystems ==
  [repo_root : BOOLEAN,
   yaml      : {Nothing} \cup ConfigFiles,
   json      : {Nothing} \cup ConfigFiles,
   HAS_YAML  : BOOLEAN]

InitConfig ==
  /\ pc = "start"
  /\ NoTicket
  /\ NoComments
  /\ fs \in FileSystems
  /\ NoConfig
  /\ NoMapping
  /\ NoVerification

LoadRepoConfig ==
  /\ pc = "start"
  /\ config' = load_repo_config
  /\ pc' = "loaded"
  /\ UNCHANGED <<fs, rules, index_map>>
  /\ UNCHANGED <<ticket_vars, comment_vars, mapper_vars, verify_vars>>

GetCodeMappingRules ==
  /\ pc = "start"
  /\ rules' = get_code_mapping_rules
  /\ pc' = "rules"
  /\ UNCHANGED <<fs, config, index_map>>
  /\ UNCHANGED <<ticket_vars, comment_vars, mapper_vars, verify_vars>>

GetIndexUrlMap ==
  /\ pc = "start"
  /\ index_map' = get_index_url_map
  /\ pc' = "index_map"
  /\ UNCHANGED <<fs, config, rules>>
  /\ UNCHANGED <<ticket_vars, comment_vars, mapper_vars, verify_vars>>

NextConfig == LoadRepoConfig \/ GetCodeMappingRules \/ GetIndexUrlMap

SpecConfig == InitConfig /\ [][NextConfig]_vars


(* ---- a text is mapped to files and to indices ---- *)

\* the most keywords a mapped text holds
MaxKeywords == 3

\* the words mapped texts are written from; a text is a selection of them in
\* this order, joined by single blanks
MapperVocabulary ==
  <<
    <<"I","n","d","e","x">>,
    <<"f","i","l","t","e","r">>,
    <<"s","i","t","e"," ","c","o","n","f","i","g">>,
    <<"s","e","t","t","i","n","g","s">>,
    <<"i","s","b","n">>,
    <<"C","a","t","a","l","o","g">>,
    <<"s","h","o","p",".","i","o">>,
    <<"d","o","c","s">>
  >>

RECURSIVE MapperWordsOf(_)
\* the words with the indices in S, in vocabulary order
MapperWordsOf(S) ==
  IF S = {} THEN <<>>
  ELSE <<MapperVocabulary[CHOOSE x \in S : \A y \in S : x <= y]>>
       \o MapperWordsOf(S \ {CHOOSE x \in S : \A y \in S : x <= y})

MapperTexts ==
  { Sentence(MapperWordsOf(S)) :
      S \in { T \in SUBSET (1..Len(MapperVocabulary)) : Cardinality(T) <= MaxKeywords } }

\* the most URLs a list holds
MaxUrls == 2

UrlPool ==
  { <<"h","t","t","p","s",":","/","/","s","h","o","p",".","i","o","/","a">>,
    <<"h","t","t","p","s",":","/","/","S","H","O","P",".","i","o">>,
    <<"h","t","t","p",":","/","/","l","i","b",".","o","r","g">> }

\* what the repository may hold while a text is mapped: nothing, or a
\* configuration file that names rules and an index mapping of its own
MapperFileSystems ==
  { NoRepository,
    [repo_root |-> TRUE, yaml |-> Nothing, HAS_YAML |-> FALSE,
     json |-> [code_mapping |-> [patterns |-> SuppliedRules],
               index_url_mapping |-> SuppliedIndexMapping]] }

InitMapper ==
  /\ pc = "start"
  /\ NoTicket
  /\ NoComments
  /\ fs \in MapperFileSystems
  /\ NoConfig
  /\ \/ input_text \in MapperTexts /\ input_urls = <<>>
     \/ input_text = <<>> /\ input_urls \in ListsUpTo(UrlPool, MaxUrls)
  /\ mapped = Nothing
  /\ primary_files = Nothing
  /\ found_indices = Nothing
  /\ NoVerification

MapKeywordsToFiles ==
  /\ pc = "start"
  /\ mapped' = map_keywords_to_files(input_text)
  /\ pc' = "mapped"
  /\ UNCHANGED <<input_text, input_urls, primary_files, found_indices>>
  /\ UNCHANGED <<ticket_vars, comment_vars, config_vars, verify_vars>>

GetPrimaryFiles ==
  /\ pc = "start"
  /\ primary_files' = get_primary_files(input_text)
  /\ pc' = "primary"
  /\ UNCHANGED <<input_text, input_urls, mapped, found_indices>>
  /\ UNCHANGED <<ticket_vars, comment_vars, config_vars, verify_vars>>

ExtractIndexFromUrls ==
  /\ pc = "start"
  /\ found_indices' = extract_index_from_urls(input_urls)
  /\ pc' = "indices_from_urls"
  /\ UNCHANGED <<input_text, input_urls, mapped, primary_files>>
  /\ UNCHANGED <<ticket_vars, comment_vars, config_vars, verify_vars>>

ExtractIndexFromText ==
  /\ pc = "start"
  /\ found_indices' = extract_index_from_text(input_text)
  /\ pc' = "indices_from_text"
  /\ UNCHANGED <<input_text, input_urls, mapped, primary_files>>
  /\ UNCHANGED <<ticket_vars, comment_vars, config_vars, verify_vars>>

NextMapper ==
  MapKeywordsToFiles \/ GetPrimaryFiles \/ ExtractIndexFromUrls \/ ExtractIndexFromText

SpecMapper == InitMapper /\ [][NextMapper]_vars

(* ---- tickets with many keywords are classified ---- *)

\* the most keywords of one list a keyword-laden ticket holds
MaxMatches == 6

\* a ticket whose summary holds the first j investigation keywords (and a URL when
\* url) and whose description holds the first i code-change keywords (and a file
\* name, a call, when asked for)
KeywordTicket(i, j, url, file, call) ==
  [summary |->
     Sentence(SubSeq(INVESTIGATION_KEYWORDS, 1, j)
              \o (IF url THEN << <<"h","t","t","p","s",":","/","/","x",".","i","o","/","a">> >>
                  ELSE <<>>)),
   description |->
     Sentence(SubSeq(CODE_CHANGE_KEYWORDS, 1, i)
              \o (IF file THEN << <<"a","p","p",".","p","y">> >> ELSE <<>>)
              \o (IF call THEN << <<"r","u","n","(",")">> >> ELSE <<>>))]

KeywordTickets ==
  { KeywordTicket(i, j, url, file, call) :
      i \in 0..MaxMatches, j \in 0..MaxMatches,
      url \in BOOLEAN, file \in BOOLEAN, call \in BOOLEAN }

InitConfidence ==
  /\ pc = "start"
  /\ \E t \in KeywordTickets : summary = t.summary /\ description = t.description
  /\ ticket_comments = <<>>
  /\ classification = Nothing
  /\ passed = Nothing
  /\ ralph_assessment = Nothing
  /\ analysis = Nothing
  /\ NoComments
  /\ fs = NoRepository
  /\ NoConfig
  /\ NoMapping
  /\ NoVerification

SpecConfidence == InitConfidence /\ [][ClassifyTicketType]_vars

(* ---- the tests and the build are verified ---- *)

\* return codes a shell hands back: success, failure, command not found, and
\* death by a signal (negative)
ReturnCodes == {0, 1, 127, -9}

\* what a command may write to its standard output
StdoutTexts ==
  { <<>>,
    <<"2"," ","p","a","s","s","e","d",","," ","0"," ","e","r","r","o","r","s","\n">>,
    <<"F","A","I","L","E","D"," ","t","/","a",".","p","y",":",":","x"," ","-"," ","T","y","p","e","E","r","r","o","r","\n","E"," "," ","a","s","s","e","r","t"," ","1"," ","=","="," ","2","\n","F","A","I","L","E","D"," ","b",".","p","y",":",":","y","\n"," ","E","r","r","o","r",":"," ","n","o"," ","s","v","c"," ","\n">> }

\* what a command may write to its standard error
StderrTexts == { <<>>, <<"m","a","k","e",":"," ","n","o","t"," ","f","o","u","n","d","\n">> }

\* str(e) of the exception subprocess.run raised
ExceptionMessages ==
  { <<"[","E","r","r","n","o"," ","2","]"," ","N","o"," ","s","u","c","h"," ","f","i","l","e"," ","o","r"," ","d","i","r","e","c","t","o","r","y">>, <<"[","E","r","r","n","o"," ","1","2","]"," ","C","a","n","n","o","t"," ","a","l","l","o","c","a","t","e"," ","m","e","m","o","r","y">> }

\* the ways a command may end
Outcomes ==
  [kind : {"completed"}, returncode : ReturnCodes, stdout : StdoutTexts, stderr : StderrTexts]
  \cup { [kind |-> "TimeoutExpired"] }
  \cup [kind : {"Exception"}, message : ExceptionMessages]

\* no repository, or one whose jira-config.json sets a part of the verification
VerifyFileSystems ==
  { NoRepository,
    [repo_root |-> TRUE, yaml |-> Nothing, HAS_YAML |-> FALSE,
     json |-> [verification |-> [test_command |-> "make test"]]],
    [repo_root |-> TRUE, yaml |-> Nothing, HAS_YAML |-> FALSE,
     json |-> [verification |-> [build_command |-> "make", timeout_seconds |-> 60]]] }

InitVerify ==
  /\ pc = "start"
  /\ NoTicket
  /\ NoComments
  /\ fs \in VerifyFileSystems
  /\ NoConfig
  /\ NoMapping
  /\ runner \in [tests : Outcomes, build : Outcomes]
  /\ log = <<>>
  /\ verification = Nothing

\* verify_all up to the build: the test command is run and its result recorded
VerifyAllTests ==
  /\ pc = "start"
  /\ log' = Append(log, [command  |-> TestCommand, timeout |-> TimeoutSeconds,
                        returned |-> run_command(TestCommand, TimeoutSeconds, runner.tests)])
  /\ verification' = AfterTests(InitialResult, run_tests(runner.tests))
  /\ pc' = "tests_run"
  /\ UNCHANGED runner
  /\ UNCHANGED <<ticket_vars, comment_vars, config_vars, mapper_vars>>

\* the rest of verify_all: the build command is run and the result returned
VerifyAllBuild ==
  /\ pc = "tests_run"
  /\ log' = Append(log, [command  |-> BuildCommand, timeout |-> TimeoutSeconds,
                        returned |-> run_command(BuildCommand, TimeoutSeconds, runner.build)])
  /\ verification' = AfterBuild(verification, run_build(runner.build))
  /\ pc' = "verified"
  /\ UNCHANGED runner
  /\ UNCHANGED <<ticket_vars, comment_vars, config_vars, mapper_vars>>

NextVerify == VerifyAllTests \/ VerifyAllBuild

SpecVerify == InitVerify /\ [][NextVerify]_vars

(***************************************************************************)
(* Properties of the classifier and of the eligibility scorer              *)
(***************************************************************************)

ticket_text == FullText(summary, description)

\* some keyword of the list occurs, case-insensitively, in the text
AnyKeyword(text, keywords) ==
  \E i \in 1..Len(keywords) : Contains(lower(text), lower(keywords[i]))

\* classify_ticket_type has just returned
Classified == pc = "classified"

\* the two scores as the specification states them
InvestigationScore ==
  2 * count_keyword_matches(ticket_text, INVESTIGATION_KEYWORDS)
  + (IF extract_urls(ticket_text) # <<>> THEN 2 ELSE 0)

CodeChangeScore ==
  2 * count_keyword_matches(ticket_text, CODE_CHANGE_KEYWORDS)
  + (IF extract_file_references(ticket_text) # <<>> THEN 3 ELSE 0)
  + (IF extract_function_references(ticket_text) # <<>> THEN 2 ELSE 0)

\* C1: a ticket whose newline-joined text contains a SKIP keyword is classified
\* SKIP with confidence exactly 0.9, whatever else the text contains.
C1_SkipOverrides ==
  (Classified /\ AnyKeyword(ticket_text, SKIP_KEYWORDS))
    => /\ classification.type = "SKIP"
       /\ RatEq(classification.confidence, Rat(9, 10))

\* a skip keyword beside a code-change keyword and a file reference
C1_Witness ==
  /\ pc = "classified"
  /\ AnyKeyword(ticket_text, SKIP_KEYWORDS)
  /\ AnyKeyword(ticket_text, CODE_CHANGE_KEYWORDS)
  /\ classification.extracted_data.file_refs # <<>>
  /\ classification.type = "SKIP"

\* C2: without a SKIP keyword the type is INVESTIGATION exactly when the
\* investigation score exceeds the code-change score and is at least 3, otherwise
\* CODE_CHANGE exactly when the code-change score is at least 2, otherwise SKIP
\* with confidence 0.5.
C2_Selection ==
  (Classified /\ ~AnyKeyword(ticket_text, SKIP_KEYWORDS))
    => LET investigation_score == InvestigationScore
           code_change_score == CodeChangeScore
           investigation == /\ investigation_score > code_change_score
                            /\ investigation_score >= 3
       IN  /\ classification.type = "INVESTIGATION" <=> investigation
           /\ classification.type = "CODE_CHANGE"
                <=> (~investigation /\ code_change_score >= 2)
           /\ classification.type = "SKIP"
                <=> (~investigation /\ code_change_score < 2)
           /\ classification.type = "SKIP"
                => RatEq(classification.confidence, Rat(5, 10))
           /\ (investigation_score = 0 /\ code_change_score = 0)
                => classification.type = "SKIP"

\* INVESTIGATION wins against a competing code-change signal
C2_Witness ==
  /\ pc = "classified"
  /\ ~AnyKeyword(ticket_text, SKIP_KEYWORDS)
  /\ CodeChangeScore >= 2
  /\ classification.type = "INVESTIGATION"

WhyIsThisBroken ==
  <<"w","h","y"," ","i","s"," ","t","h","i","s"," ","b","r","o","k","e","n">>

\* the ticket whose only text is "why is this broken"
IsWhyIsThisBroken ==
  \/ summary = WhyIsThisBroken /\ description = <<>>
  \/ summary = <<>> /\ description = WhyIsThisBroken

\* C3 as stated: the floor is enforced, and "why is this broken" is SKIP with the
\* default confidence 0.5.
C3_AsStated ==
  Classified
    => LET investigation_score == InvestigationScore
       IN  /\ (investigation_score > CodeChangeScore /\ investigation_score < 3)
                => classification.type # "INVESTIGATION"
           /\ IsWhyIsThisBroken
                => /\ classification.type = "SKIP"
                   /\ RatEq(classification.confidence, Rat(5, 10))

\* C3: an investigation score above the code-change score but below 3 never
\* yields INVESTIGATION; "why is this broken" matches the investigation keyword
\* "why" and the code-change keyword "broken" (both scores 2), and is
\* CODE_CHANGE with confidence 0.2.
C3_FloorEnforced ==
  Classified
    => LET investigation_score == InvestigationScore
       IN  /\ (investigation_score > CodeChangeScore /\ investigation_score < 3)
                => classification.type # "INVESTIGATION"
           /\ IsWhyIsThisBroken
                => /\ classification.type = "CODE_CHANGE"
                   /\ RatEq(classification.confidence, Rat(2, 10))

\* one investigation keyword and nothing else: the floor decides
C3_Witness ==
  /\ pc = "classified"
  /\ InvestigationScore = 2
  /\ CodeChangeScore = 0
  /\ classification.type = "SKIP"
  /\ RatEq(classification.confidence, Rat(5, 10))

Assessed == pc = "assessed"

\* the classification handed to the scorer is the ticket's own
OwnClassification == Assessed /\ passed = classification

InList(x, list) == \E i \in 1..Len(list) : list[i] = x

ConfigFooTestPy ==
  <<"c","o","n","f","i","g","/","f","o","o","_","t","e","s","t",".","p","y">>

\* C4: a CODE_CHANGE ticket that references config/foo_test.py and has no vague
\* and no design-decision phrase is eligible, with existing_tests and
\* specific_files among the criteria met.
C4_TestFileEligible ==
  ( /\ OwnClassification
    /\ classification.type = "CODE_CHANGE"
    /\ Contains(ticket_text, ConfigFooTestPy)
    /\ ~AnyKeyword(ticket_text, VAGUE_KEYWORDS)
    /\ ~AnyKeyword(ticket_text, DESIGN_DECISION_KEYWORDS) )
    => /\ ralph_assessment.eligible
       /\ InList("existing_tests", ralph_assessment.criteria_met)
       /\ InList("specific_files", ralph_assessment.criteria_met)

DesignTheApproach ==
  <<"d","e","s","i","g","n"," ","t","h","e"," ","a","p","p","r","o","a","c","h">>

\* C5 as stated: with "design the approach" in the ticket, whatever
\* classification is passed, the result is not eligible and lists
\* requires_design_decisions.
C5_AsStated ==
  (Assessed /\ Contains(lower(ticket_text), DesignTheApproach))
    => /\ ~ralph_assessment.eligible
       /\ InList("requires_design_decisions", ralph_assessment.disqualifiers)

\* C5: with "design the approach" in the ticket the result is never eligible;
\* it lists requires_design_decisions when the classification passed is a
\* CODE_CHANGE, and is the fixed not_code_change result otherwise.
C5_DesignBlocks ==
  (Assessed /\ Contains(lower(ticket_text), DesignTheApproach))
    => /\ ~ralph_assessment.eligible
       /\ IF Get(passed, "type", None) = "CODE_CHANGE"
          THEN InList("requires_design_decisions", ralph_assessment.disqualifiers)
          ELSE ralph_assessment.disqualifiers = <<"not_code_change">>

\* a design ticket whose score reaches the threshold all the same
C5_Witness ==
  /\ Assessed
  /\ Contains(lower(ticket_text), DesignTheApproach)
  /\ Get(passed, "type", None) = "CODE_CHANGE"
  /\ RatLeq(Rat(3, 6), ralph_assessment.confidence)
  /\ ~ralph_assessment.eligible
  /\ ralph_assessment.disqualifiers = <<"requires_design_decisions">>

\* the weight the specification gives each criterion and disqualifier
Weight(name) ==
  CASE name = "existing_tests" -> 3
    [] name = "test_requirements" -> 2
    [] name = "build_criteria" -> 2
    [] name = "specific_files" -> 1
    [] name = "specific_functions" -> 1
    [] name = "vague_requirements" -> -2
    [] name = "requires_design_decisions" -> -3
    [] name = "no_specific_scope" -> -1

RECURSIVE WeightSum(_)
WeightSum(names) ==
  IF Len(names) = 0 THEN 0 ELSE Weight(names[1]) + WeightSum(Tail(names))

\* the score of the recorded criteria and disqualifiers
RecordedScore ==
  WeightSum(ralph_assessment.criteria_met \o ralph_assessment.disqualifiers)

\* C6: for a CODE_CHANGE classification the result is eligible iff the score of
\* the recorded criteria and disqualifiers is at least 3 and no disqualifier
\* other than no_specific_scope is recorded, and the confidence is score/6
\* clamped to [0,1].
C6_ScoreDecides ==
  (Assessed /\ Get(passed, "type", None) = "CODE_CHANGE")
    => /\ ralph_assessment.eligible
            <=> /\ RecordedScore >= 3
                /\ \A i \in 1..Len(ralph_assessment.disqualifiers) :
                     ralph_assessment.disqualifiers[i] = "no_specific_scope"
       /\ RatEq(ralph_assessment.confidence,
                IF RecordedScore < 0 THEN Rat(0, 1)
                ELSE IF RecordedScore > 6 THEN Rat(1, 1)
                ELSE Rat(RecordedScore, 6))

\* eligible although no_specific_scope is recorded
C6_Witness ==
  /\ Assessed
  /\ Get(passed, "type", None) = "CODE_CHANGE"
  /\ ralph_assessment.eligible
  /\ InList("no_specific_scope", ralph_assessment.disqualifiers)


\* C14: when the classification passed has a type other than CODE_CHANGE, or no
\* type, the result is the fixed record eligible = False, confidence = 0,
\* criteria_met = [], disqualifiers = [not_code_change], whatever the ticket text
\* and the classification's extracted data are.
C14_NotCodeChangeFixed ==
  (Assessed /\ Get(passed, "type", None) # "CODE_CHANGE")
    => /\ ralph_assessment.eligible = FALSE
       /\ ralph_assessment.confidence.num = 0
       /\ ralph_assessment.criteria_met = <<>>
       /\ ralph_assessment.disqualifiers = <<"not_code_change">>

\* a classification without a type whose extracted data names a test file, passed
\* with a ticket that asks for pytest: as a CODE_CHANGE it would be eligible
C14_Witness ==
  /\ Assessed
  /\ "type" \notin DOMAIN passed
  /\ passed.extracted_data.file_refs = <<ConfigFooTestPy>>
  /\ AnyKeyword(ticket_text, TEST_KEYWORDS)
  /\ ralph_assessment.disqualifiers = <<"not_code_change">>
\* C7: analyze_ticket returns a well-formed classification result for every
\* combination of input strings, and never ends with an error.
C7_AlwaysWellFormed ==
  pc = "analyzed"
    => /\ {"type", "confidence", "reason", "extracted_data"} \subseteq DOMAIN analysis
       /\ analysis.type \in {"CODE_CHANGE", "INVESTIGATION", "SKIP"}

(***************************************************************************)
(* Properties of the configuration loader                                   *)
(***************************************************************************)

\* the content of the repository's configuration file, Nothing without one:
\* jira-config.yaml where it exists and can be parsed, else jira-config.json
RepoConfigFile ==
  IF ~fs.repo_root THEN Nothing
  ELSE IF fs.yaml # Nothing /\ fs.HAS_YAML THEN fs.yaml
  ELSE fs.json

\* the rule list the repository configuration supplies, <<>> if none
RulesSupplied == Get(Get(RepoConfigFile, "code_mapping", <<>>), "patterns", <<>>)

\* C8: a non-empty rule list supplied by the repository configuration is the one
\* get_code_mapping_rules uses, the built-in default being used only when none is
\* supplied; a supplied index_url_mapping is the table the index resolver reads.
C8_SuppliedRulesUsed ==
  /\ pc = "rules"
       => rules = IF RulesSupplied # <<>> THEN RulesSupplied ELSE DEFAULT_CODE_MAPPING_RULES
  /\ (pc = "index_map" /\ "index_url_mapping" \in DOMAIN RepoConfigFile)
       => index_map = RepoConfigFile.index_url_mapping

(***************************************************************************)
(* Properties of the follow-up detector                                     *)
(***************************************************************************)

CreatedOf(comment) == Get(comment, "created", <<>>)

\* the positions of the comments the account authored
ByUser == { i \in 1..Len(comments) : AuthorOf(comments[i]) = user_account_id }

\* the greatest created string among the user's comments
LatestCreated ==
  CHOOSE t \in { CreatedOf(comments[i]) : i \in ByUser } :
    \A i \in ByUser : ~StrLess(t, CreatedOf(comments[i]))

\* some comment of another author has a created string greater than the user's latest
LaterByOther ==
  \E i \in 1..Len(comments) :
    /\ AuthorOf(comments[i]) # user_account_id
    /\ StrLess(LatestCreated, CreatedOf(comments[i]))

\* C9: for a non-empty account id that authored a comment, the answer is True iff
\* a comment of another author has a created string strictly greater than the
\* greatest created string of the user's comments, also when created values are
\* equal, empty or missing.
C9_FollowupIffLater ==
  (pc = "followup" /\ user_account_id # "" /\ ByUser # {})
    => (followup <=> LaterByOther)

\* C10: the answer is False when the user has no comment in the list (an empty
\* list and an empty account id included), and False when no comment of another
\* author has a created string later than the user's latest.
C10_NoFollowup ==
  pc = "followup"
    => /\ (user_account_id = "" \/ ByUser = {}) => followup = FALSE
       /\ (user_account_id # "" /\ ByUser # {} /\ ~LaterByOther) => followup = FALSE

\* another author commented at the very created string of the user's latest
C10_Witness ==
  /\ pc = "followup"
  /\ user_account_id # ""
  /\ ByUser # {}
  /\ LatestCreated # <<>>
  /\ \E i \in 1..Len(comments) :
       /\ AuthorOf(comments[i]) \notin {user_account_id, None}
       /\ CreatedOf(comments[i]) = LatestCreated
  /\ followup = FALSE


(***************************************************************************)
(* Properties of the code mapper                                            *)
(***************************************************************************)

\* a rule set whose rules share files, name more than five files, repeat a file
\* within a rule, and reach equal and unequal confidences on the mapped texts
CrowdedRules ==
  << [keywords |-> << <<"i","n","d","e","x">> >>,
      files    |-> <<"a.py", "b.py", "c.py", "d.py">>],
     [keywords |-> << <<"F","i","l","t","e","r">>, <<"s","e","t","t","i","n","g","s">>,
                      <<"i","s","b","n">>, <<"c","a","t","a","l","o","g">> >>,
      files    |-> <<"b.py", "e.py", "f.py", "g.py">>],
     [keywords |-> << <<"f","i","l","t","e","r">>, <<"c","a","t","a","l","o","g">> >>,
      files    |-> <<"c.py", "h.py", "c.py">>],
     [keywords |-> <<>>, files |-> <<"never.py">>] >>

\* the rule sets a configuration may make active, the built-in default among them
RuleSets == { DEFAULT_CODE_MAPPING_RULES, SuppliedRules, CrowdedRules }

\* the position of the first entry of the mapping list m for the file f
FirstEntry(m, f) == CHOOSE k \in 1..Len(m) : m[k].file = f /\ \A j \in 1..(k - 1) : m[j].file # f

\* what C11 asks of the result r computed from the confidence-sorted list m
PrimaryFilesOk(m, r) ==
  /\ Len(r) <= 5
  /\ \A i, j \in 1..Len(r) : i # j => r[i] # r[j]
  /\ \A i \in 1..Len(r) :
       \E k \in 1..Len(m) : m[k].file = r[i] /\ 10 * m[k].confidence.num >= 3 * m[k].confidence.den
  /\ \A i, j \in 1..Len(r) : i < j => FirstEntry(m, r[i]) < FirstEntry(m, r[j])

\* C11: for every text and every active rule set, get_primary_files returns at
\* most 5 file paths, no path twice, only files whose mapping confidence is at
\* least 0.3, in the order of their first occurrence in the confidence-sorted
\* mapping list.
C11_PrimaryFiles ==
  pc = "primary"
    => /\ PrimaryFilesOk(map_keywords_to_files(input_text), primary_files)
       /\ \A rules_ \in RuleSets :
            PrimaryFilesOk(MapWithRules(input_text, rules_),
                           PrimaryOf(MapWithRules(input_text, rules_)))

\* the files of the entries of m that reach confidence 0.3
EligibleFiles(m) ==
  { m[k].file : k \in { j \in 1..Len(m) : 10 * m[j].confidence.num >= 3 * m[j].confidence.den } }

\* a text for which get_primary_files kept one file and dropped another for its
\* confidence, and for which a rule set yields more than five eligible files
\* and lists one of them twice
C11_Witness ==
  /\ pc = "primary"
  /\ Len(primary_files) > 0
  /\ Len(map_keywords_to_files(input_text)) > Len(primary_files)
  /\ \E rules_ \in RuleSets :
       /\ Cardinality(EligibleFiles(MapWithRules(input_text, rules_))) > 5
       /\ Len(PrimaryOf(MapWithRules(input_text, rules_))) = 5
       /\ \E a, b \in 1..Len(MapWithRules(input_text, rules_)) :
            /\ a # b
            /\ MapWithRules(input_text, rules_)[a].file = MapWithRules(input_text, rules_)[b].file
            /\ MapWithRules(input_text, rules_)[a].file \in EligibleFiles(MapWithRules(input_text, rules_))

\* the keywords of the rule that occur in the text, case-insensitively, in the
\* rule's order
MatchedOf(rule, text) ==
  SelectSeq(rule.keywords, LAMBDA kw : Contains(lower(text), lower(kw)))

\* <<rule, file>> positions of the entries a rule set yields, `matched` giving
\* each rule's matched keywords
EntryPositions(rules_, matched) ==
  UNION { { <<r, f>> : f \in 1..Len(rules_[r].files) } :
            r \in { k \in 1..Len(rules_) : Len(matched[k]) > 0 } }

\* the entry at p comes before the entry at q in the list sorted by confidence
\* (matched keywords / rule keywords) descending, ties in rule order and, within
\* a rule, file order
ComesBefore(rules_, matched, p, q) ==
  \/ Len(matched[p[1]]) * Len(rules_[q[1]].keywords)
       > Len(matched[q[1]]) * Len(rules_[p[1]].keywords)
  \/ /\ Len(matched[p[1]]) * Len(rules_[q[1]].keywords)
          = Len(matched[q[1]]) * Len(rules_[p[1]].keywords)
     /\ (p[1] < q[1] \/ (p[1] = q[1] /\ p[2] < q[2]))

\* what C15 asks of the list m, given each rule's matched keywords
MappingOkGiven(rules_, matched, m) ==
  /\ Len(m) = Cardinality(EntryPositions(rules_, matched))
  /\ \A p \in EntryPositions(rules_, matched) :
       LET at == 1 + Cardinality({ q \in EntryPositions(rules_, matched) :
                                    ComesBefore(rules_, matched, q, p) })
       IN  /\ m[at].file = rules_[p[1]].files[p[2]]
           /\ m[at].keywords_matched = matched[p[1]]
           /\ m[at].confidence.num * Len(rules_[p[1]].keywords)
                = Len(matched[p[1]]) * m[at].confidence.den
           /\ m[at].confidence.num <= m[at].confidence.den

\* each rule's matched keywords for the text
MatchedByRule(rules_, text) == [r \in 1..Len(rules_) |-> MatchedOf(rules_[r], text)]

\* what C15 asks of the list m returned for the text under the rule set
MappingOk(rules_, text, m) == MappingOkGiven(rules_, MatchedByRule(rules_, text), m)

\* the rule set in force, as get_code_mapping_rules returns it
ActiveRules == get_code_mapping_rules

SharedIndexMapping ==
  (<<"s","h","o","p",".","i","o">> :> <<"s","h","o","p","_","p","r","o","d","u","c","t","s">>)
  @@ (<<"l","i","b",".","o","r","g">> :> <<"s","h","o","p","_","p","r","o","d","u","c","t","s">>)
  @@ (<<"x",".","i","o">> :> <<"c","a","t","a","l","o","g">>)

\* a domain and an index name written with capitals
CapitalIndexMapping ==
  (<<"S","h","o","p",".","i","o">> :> <<"D","o","c","s">>)
  @@ (<<"l","i","b",".","o","r","g">> :> <<"l","i","b","r","a","r","y">>)

\* the index mappings a configuration may supply, the empty one among them
IndexMappings == { <<>>, SuppliedIndexMapping, SharedIndexMapping, CapitalIndexMapping }

\* the mapping in force, as get_index_url_map returns it
ActiveMapping == get_index_url_map

\* the index names of the pairs whose domain occurs in the lower-cased form of a URL
StatedUrlIndices(mapping, urls) ==
  { mapping[d] : d \in { x \in DOMAIN mapping :
                           \E u \in 1..Len(urls) : Contains(lower(urls[u]), x) } }

\* the index names of the pairs whose domain or index name occurs in the
\* lower-cased text
StatedTextIndices(mapping, text) ==
  { mapping[d] : d \in { x \in DOMAIN mapping :
                           Contains(lower(text), x) \/ Contains(lower(text), mapping[x]) } }

\* the index names of the pairs whose lower-cased domain or lower-cased index
\* name occurs in the lower-cased text
FoldedTextIndices(mapping, text) ==
  { mapping[d] : d \in { x \in DOMAIN mapping :
                           \/ Contains(lower(text), lower(x))
                           \/ Contains(lower(text), lower(mapping[x])) } }

\* what C16 asks of extract_index_from_urls
UrlIndicesOk ==
  pc = "indices_from_urls"
    => /\ found_indices = StatedUrlIndices(ActiveMapping, input_urls)
       /\ \A mapping \in IndexMappings :
            /\ IndicesOfUrls(input_urls, mapping) = StatedUrlIndices(mapping, input_urls)
            /\ mapping = <<>> => IndicesOfUrls(input_urls, mapping) = {}

ExtensionFields == {"suggested_files", "file_mappings", "ralph_eligibility", "suggested_indices"}

\* the extension fields a result of the given type carries
ExtensionsOf(type) ==
  CASE type = "CODE_CHANGE" -> {"suggested_files", "file_mappings", "ralph_eligibility"}
    [] type = "INVESTIGATION" -> {"suggested_indices"}
    [] OTHER -> {}

\* C12: every result analyze_ticket returns carries exactly the extension fields
\* of its type: suggested_files, file_mappings and ralph_eligibility for
\* CODE_CHANGE, suggested_indices for INVESTIGATION, none for SKIP.
C12_ExtensionsMatchType ==
  pc = "analyzed"
    => /\ "type" \in DOMAIN analysis
       /\ ExtensionFields \cap DOMAIN analysis = ExtensionsOf(analysis.type)

(***************************************************************************)
(* Properties of the classifier's confidence                                *)
(***************************************************************************)

\* the keyword list whose matches count for the type
KeywordsOf(type) ==
  IF type = "INVESTIGATION" THEN INVESTIGATION_KEYWORDS ELSE CODE_CHANGE_KEYWORDS

\* the keyword list whose matches count for the other type
OtherKeywordsOf(type) ==
  IF type = "INVESTIGATION" THEN CODE_CHANGE_KEYWORDS ELSE INVESTIGATION_KEYWORDS

\* the classification of the ticket with one more word at the end of its description
OneMore(word) == classify_ticket_type(summary, description \o <<" ">> \o word)

\* the text of that ticket
OneMoreText(word) == ticket_text \o <<" ">> \o word

\* the signals other than the keywords of the type are the same for the ticket
\* classified and for the one with the word added, classified as `more`
SameOtherSignals(type, other_count, word, more) ==
  /\ other_count = count_keyword_matches(OneMoreText(word), OtherKeywordsOf(type))
  /\ (classification.extracted_data.urls = <<>>) = (more.extracted_data.urls = <<>>)
  /\ (classification.extracted_data.file_refs = <<>>) = (more.extracted_data.file_refs = <<>>)
  /\ (classification.extracted_data.function_refs = <<>>)
       = (more.extracted_data.function_refs = <<>>)

\* the type won on its score rather than by the skip override or by default
ScoreWinner ==
  /\ pc = "classified"
  /\ classification.type \in {"INVESTIGATION", "CODE_CHANGE"}

WinningScore ==
  IF classification.type = "INVESTIGATION" THEN InvestigationScore ELSE CodeChangeScore

\* C13: the confidence of a non-default winner is min(score / 10, 1.0) of the
\* winning score; it lies in [0, 1] however many keywords match; and a ticket
\* with one more keyword of the winning type (any of the first MaxMatches + 1 of
\* its list), the other signals unchanged and the type the same, gets a
\* confidence that is not smaller.
C13_ConfidenceOfWinner ==
  ScoreWinner
    => /\ IF WinningScore >= 10
          THEN classification.confidence.num = classification.confidence.den
          ELSE 10 * classification.confidence.num = WinningScore * classification.confidence.den
       /\ classification.confidence.den > 0
       /\ 0 <= classification.confidence.num
       /\ classification.confidence.num <= classification.confidence.den
       /\ LET other_count ==
                 count_keyword_matches(ticket_text, OtherKeywordsOf(classification.type))
          IN  \A k \in 1..(MaxMatches + 1) :
                LET word == KeywordsOf(classification.type)[k]
                    more == OneMore(word)
                IN  (/\ more.type = classification.type
                     /\ SameOtherSignals(classification.type, other_count, word, more))
                      => RatLeq(classification.confidence, more.confidence)

\* a CODE_CHANGE ticket whose score exceeds 10, so that the clamp decides, and
\* to which a further code-change keyword can still be added
C13_Witness ==
  /\ ScoreWinner
  /\ classification.type = "CODE_CHANGE"
  /\ CodeChangeScore > 10
  /\ \E k \in 1..(MaxMatches + 1) :
       /\ count_keyword_matches(OneMoreText(CODE_CHANGE_KEYWORDS[k]), CODE_CHANGE_KEYWORDS)
            > count_keyword_matches(ticket_text, CODE_CHANGE_KEYWORDS)
       /\ OneMore(CODE_CHANGE_KEYWORDS[k]).type = "CODE_CHANGE"
       /\ SameOtherSignals("CODE_CHANGE",
                           count_keyword_matches(ticket_text, INVESTIGATION_KEYWORDS),
                           CODE_CHANGE_KEYWORDS[k], OneMore(CODE_CHANGE_KEYWORDS[k]))

(***************************************************************************)
(* Properties of verify_all                                                 *)
(***************************************************************************)

\* the command exited with code 0
ExitedZero(outcome) == outcome.kind = "completed" /\ outcome.returncode = 0

\* the message that explains why a command that did not complete has no exit code
Explanation(outcome, timeout) ==
  IF outcome.kind = "TimeoutExpired"
  THEN <<"C","o","m","m","a","n","d"," ","t","i","m","e","d"," ","o","u","t"," ","a","f","t","e","r"," ">> \o DecimalDigits(timeout) \o <<" ","s","e","c","o","n","d","s">>
  ELSE outcome.message

\* a command that timed out or could not be started is reported as exit code -1
\* with its explanation; any other command as the process left it
ReportedAs(outcome, entry) ==
  IF outcome.kind = "completed"
  THEN /\ entry.returned.exit_code = outcome.returncode
       /\ entry.returned.stdout \o entry.returned.stderr = outcome.stdout \o outcome.stderr
  ELSE /\ entry.returned.exit_code = -1
       /\ entry.returned.stdout = <<>>
       /\ entry.returned.stderr = Explanation(outcome, entry.timeout)
       /\ entry.returned.stderr # <<>>

\* the failure details of a step: parsed from its output when its exit code is
\* not 0, none otherwise
DetailsOf(entry, parsed) == IF entry.returned.exit_code # 0 THEN parsed ELSE <<>>

\* the output a log entry holds
OutputOf(entry) == entry.returned.stdout \o entry.returned.stderr

\* the commands run so far: none, the test command, or the test command and
\* then the build command
RanInOrder ==
  /\ pc = "start" => log = <<>>
  /\ pc = "tests_run" => Len(log) = 1 /\ log[1].command = TestCommand
  /\ pc = "verified"
       => Len(log) = 2 /\ log[1].command = TestCommand /\ log[2].command = BuildCommand

\* C17: verify_all runs the test command first and then the build command, the
\* build also when the tests failed; success is True iff both commands exited
\* with code 0; a command that timed out or could not be started (subprocess.run
\* raised) is reported as exit code -1 with an explanatory message, so its step
\* has not passed and success is False, and verify_all still returns its result
\* dict; failure details are parsed only for a step whose exit code is not 0.
C17_VerifyAll ==
  /\ RanInOrder
  /\ pc \in {"tests_run", "verified"}
       => /\ ReportedAs(runner.tests, log[1])
          /\ DOMAIN verification = DOMAIN InitialResult
          /\ verification.tests_passed = ExitedZero(runner.tests)
          /\ ~ExitedZero(runner.tests) => ~verification.success
  /\ pc = "verified"
       => /\ ReportedAs(runner.build, log[2])
          /\ verification.build_passed = ExitedZero(runner.build)
          /\ verification.success = (ExitedZero(runner.tests) /\ ExitedZero(runner.build))
          /\ verification.failures
               = DetailsOf(log[1], parse_pytest_failures(OutputOf(log[1])))
                 \o DetailsOf(log[2], parse_build_errors(OutputOf(log[2])))

\* the tests timed out, the build ran all the same and exited with 0, although
\* its output would have parsed to errors
C17_Witness ==
  /\ pc = "verified"
  /\ runner.tests.kind = "TimeoutExpired"
  /\ ExitedZero(runner.build)
  /\ parse_build_errors(OutputOf(log[2])) # <<>>
  /\ log[1].returned.exit_code = -1
  /\ Len(log) = 2
  /\ verification.build_passed
  /\ ~verification.success
  /\ verification.failures = <<>>
=============================================================================
